---- MODULE Spec2Model ----
(***************************************************************************)
(* NL2SQL multi-agent pipeline: ChatAgent.process -> SQLAgent.process ->   *)
(* run_query -> SummaryAgent.process -> VisualizationAgent.process.        *)
(*                                                                         *)
(* Python values are tagged records so that None, strings and lists can    *)
(* share a variable: None is [none |-> TRUE], a str is [str |-> chars]     *)
(* with chars a sequence of one-character strings, a list is               *)
(* [list |-> seq].  The back-quote character of a markdown fence is        *)
(* written BT.  Case mapping covers the ASCII letters.                     *)
(***************************************************************************)
EXTENDS Integers, Sequences, FiniteSets, TLC

VARIABLES
    pc,              \* position of the request inside ChatAgent.process
    schema,          \* the schema argument of the request in flight
    current_schema,  \* SQLAgent.current_schema (singleton field)
    sql_query,       \* local sql_query of ChatAgent.process
    columns,         \* local columns of ChatAgent.process
    rows,            \* local rows of ChatAgent.process
    kinds,           \* value kind ("num"/"cat") of each result column
    result,          \* the response dictionary under construction
    log,             \* collaborators invoked for the request and what
                     \* each returned, in order
    generated,       \* what _generate_sql returned for the request
    executed,        \* the string handed to run_query, or None
    committed,       \* run_query took its commit branch
    g_sql,           \* argument of a direct validate_query call
    g_ret,           \* its return value, or None before the call
    chart,           \* a direct _detect_chart_type call: arguments, result
    clean,           \* a direct _clean_sql_response call: argument, results
    threads,         \* two requests in flight on the shared agents
    http,            \* a chat_completion call in progress
    dbpath,          \* db.py's _current_db_path and the calls made on it
    conversation_history,  \* Agent.conversation_history of each agent
    llm_call,        \* a direct call_llm / reset_history call: its arguments
    formatted,       \* a direct _format_results call: arguments, result
    viz              \* a direct VisualizationAgent.process call

vars == <<pc, schema, current_schema, sql_query, columns, rows, kinds,
          result, log, generated, executed, committed, g_sql, g_ret,
          chart, clean, threads, http, dbpath, conversation_history,
          llm_call, formatted, viz>>

seqVars == <<pc, schema, sql_query, columns, rows, kinds, result, log,
            generated, executed, committed, conversation_history>>

pipeVars == <<pc, schema, current_schema, sql_query, columns, rows, kinds,
              result, log, generated, executed, committed,
              conversation_history>>

requestVars == <<pc, schema, current_schema, sql_query, columns, rows, kinds,
                 result, log, generated, executed, committed>>

gateVars == <<g_sql, g_ret>>

restVars == <<llm_call, formatted, viz>>

extVars == <<chart, clean, threads, http, dbpath, llm_call, formatted, viz>>

----------------------------------------------------------------------------
(* Python values *)

None == [none |-> TRUE]

Str(s) == [str |-> s]

List(l) == [list |-> l]

Bool(b) == [bool |-> b]

\* the parts of the state a specification does not exercise
ChartIdle == chart = None

CleanIdle == clean = None

ThreadsIdle == threads = None

HttpIdle == http = None

DbIdle == dbpath = None

GateIdle == g_sql = None /\ g_ret = None

RestIdle == llm_call = None /\ formatted = None /\ viz = None

\* Agent.__init__: every agent starts with an empty history
NoHistory == [sql |-> <<>>, summary |-> <<>>, visualization |-> <<>>]

\* truthiness of None / str / list, as used by "if not x"
Truthy(v) ==
    IF v = None THEN FALSE
    ELSE IF "str" \in DOMAIN v THEN Len(v.str) > 0
    ELSE IF "list" \in DOMAIN v THEN Len(v.list) > 0
    ELSE IF "bool" \in DOMAIN v THEN v.bool
    ELSE TRUE

----------------------------------------------------------------------------
(* Character strings *)

BT == "BACKTICK"

LowerLetters ==
    <<"a","b","c","d","e","f","g","h","i","j","k","l","m",
      "n","o","p","q","r","s","t","u","v","w","x","y","z">>

UpperLetters ==
    <<"A","B","C","D","E","F","G","H","I","J","K","L","M",
      "N","O","P","Q","R","S","T","U","V","W","X","Y","Z">>

UpperChar(c) ==
    IF \E i \in 1..26 : LowerLetters[i] = c
    THEN UpperLetters[CHOOSE i \in 1..26 : LowerLetters[i] = c]
    ELSE c

LowerChar(c) ==
    IF \E i \in 1..26 : UpperLetters[i] = c
    THEN LowerLetters[CHOOSE i \in 1..26 : UpperLetters[i] = c]
    ELSE c

\* str.upper()
Upper(s) == [i \in 1..Len(s) |-> UpperChar(s[i])]

\* str.lower()
Lower(s) == [i \in 1..Len(s) |-> LowerChar(s[i])]

\* whitespace of str.strip() and of the regex class \s
IsSpace(c) == c \in {" ", "\n", "\t"}

\* s[i:] for a 1-based i
From(s, i) == SubSeq(s, i, Len(s))

\* str.lstrip()
LStrip(s) ==
    IF \A i \in 1..Len(s) : IsSpace(s[i]) THEN <<>>
    ELSE From(s, CHOOSE i \in 1..Len(s) :
                    /\ ~IsSpace(s[i])
                    /\ \A j \in 1..(i - 1) : IsSpace(s[j]))

\* str.rstrip()
RStrip(s) ==
    IF \A i \in 1..Len(s) : IsSpace(s[i]) THEN <<>>
    ELSE SubSeq(s, 1, CHOOSE i \in 1..Len(s) :
                    /\ ~IsSpace(s[i])
                    /\ \A j \in (i + 1)..Len(s) : IsSpace(s[j]))

\* str.strip()
Strip(s) == LStrip(RStrip(s))

\* str.rstrip(';')
RStripSemi(s) ==
    IF \A i \in 1..Len(s) : s[i] = ";" THEN <<>>
    ELSE SubSeq(s, 1, CHOOSE i \in 1..Len(s) :
                    /\ s[i] # ";"
                    /\ \A j \in (i + 1)..Len(s) : s[j] = ";")

\* str.startswith(p)
StartsWith(s, p) == Len(s) >= Len(p) /\ SubSeq(s, 1, Len(p)) = p

\* p in s
Contains(s, p) ==
    \E i \in 1..(Len(s) - Len(p) + 1) : SubSeq(s, i, i + Len(p) - 1) = p

kwSELECT == <<"S","E","L","E","C","T">>

kwselect == <<"s","e","l","e","c","t">>

kwDROP == <<"D","R","O","P">>

kwDELETE == <<"D","E","L","E","T","E">>

kwINSERT == <<"I","N","S","E","R","T">>

kwUPDATE == <<"U","P","D","A","T","E">>

kwALTER == <<"A","L","T","E","R">>

kwCREATE == <<"C","R","E","A","T","E">>

kwTRUNCATE == <<"T","R","U","N","C","A","T","E">>

kwEXEC == <<"E","X","E","C">>

----------------------------------------------------------------------------
(* SQLAgent *)

dangerous_keywords ==
    {kwDROP, kwDELETE, kwINSERT, kwUPDATE, kwALTER, kwCREATE, kwTRUNCATE, kwEXEC}

\* validate_query comparing without upper-casing
validate_query_mut(sql) ==
    LET sql_upper == Strip(sql)
    IN  IF ~StartsWith(sql_upper, kwSELECT) THEN FALSE
        ELSE IF \E keyword \in dangerous_keywords : Contains(sql_upper, keyword)
             THEN FALSE
             ELSE TRUE

\* SQLAgent.validate_query(sql) for a str sql
validate_query(sql) ==
    LET sql_upper == Strip(Upper(sql))
    IN  IF ~StartsWith(sql_upper, kwSELECT) THEN FALSE
        ELSE IF \E keyword \in dangerous_keywords : Contains(sql_upper, keyword)
             THEN FALSE
             ELSE TRUE

\* re.sub(r'```sql\s*', '', s, flags=re.IGNORECASE): every occurrence of the
\* tagged fence, with the whitespace that follows it, is deleted
fenceSQL == <<BT, BT, BT, "S", "Q", "L">>

RECURSIVE RemoveSqlFences(_)
RemoveSqlFences(s) ==
    IF s = <<>> THEN <<>>
    ELSE IF Len(s) >= 6 /\ Upper(SubSeq(s, 1, 6)) = fenceSQL
         THEN RemoveSqlFences(LStrip(From(s, 7)))
         ELSE <<Head(s)>> \o RemoveSqlFences(Tail(s))

\* re.sub(r'```\s*$', '', s): the leftmost fence followed only by whitespace
\* up to the end of the text is deleted together with that whitespace
fence == <<BT, BT, BT>>

IsTrailingFenceAt(s, i) ==
    /\ i + 2 <= Len(s)
    /\ SubSeq(s, i, i + 2) = fence
    /\ \A j \in (i + 3)..Len(s) : IsSpace(s[j])

RemoveTrailingFence(s) ==
    IF \E i \in 1..Len(s) : IsTrailingFenceAt(s, i)
    THEN SubSeq(s, 1, (CHOOSE i \in 1..Len(s) :
                          /\ IsTrailingFenceAt(s, i)
                          /\ \A j \in 1..(i - 1) : ~IsTrailingFenceAt(s, j)) - 1)
    ELSE s

\* re.search(r'(SELECT\s+.*)', s, re.IGNORECASE | re.DOTALL)
IsSelectAt(s, i) ==
    /\ i + 6 <= Len(s)
    /\ IsSpace(s[i + 6])
    /\ Upper(SubSeq(s, i, i + 5)) = kwSELECT

\* the search keeping the text from the last SELECT instead of the first
FromFirstSelect_mut(s) ==
    IF \E i \in 1..Len(s) : IsSelectAt(s, i)
    THEN From(s, CHOOSE i \in 1..Len(s) :
                    /\ IsSelectAt(s, i)
                    /\ \A j \in (i + 1)..Len(s) : ~IsSelectAt(s, j))
    ELSE s

FromFirstSelect(s) ==
    IF \E i \in 1..Len(s) : IsSelectAt(s, i)
    THEN From(s, CHOOSE i \in 1..Len(s) :
                    /\ IsSelectAt(s, i)
                    /\ \A j \in 1..(i - 1) : ~IsSelectAt(s, j))
    ELSE s

\* SQLAgent._clean_sql_response(response) for a str response
clean_sql_response(response) ==
    LET s1 == Strip(response)
        s2 == RemoveSqlFences(s1)
        s3 == RemoveTrailingFence(s2)
        s4 == Strip(s3)
        s5 == FromFirstSelect(s4)
        s6 == Strip(RStripSemi(s5))
    IN  s6 \o <<";">>

----------------------------------------------------------------------------
(* Bounded inputs: texts are concatenations of at most MaxTok tokens *)

MaxGateTok == 3

MaxReplyTok == 3

MaxRows == 2

RECURSIVE Concat(_)
Concat(ts) == IF ts = <<>> THEN <<>> ELSE Head(ts) \o Concat(Tail(ts))

Texts(toks, n) == { Concat(ts) : ts \in UNION { [1..k -> toks] : k \in 0..n } }

\* texts handed directly to validate_query
GateTokens ==
    { kwSELECT, kwselect, <<" ">>, <<"x">>, <<";">>,
      kwDROP, Lower(kwDELETE), kwINSERT, Lower(kwUPDATE),
      kwALTER, <<"c","r","e","a","t","e","d","_","a","t">>, kwTRUNCATE, Lower(kwEXEC) }

GateInputs == Texts(GateTokens, MaxGateTok)

\* raw language-model replies of the pipeline
ReplyTokens ==
    { kwSELECT, kwselect \o <<" ">>, <<" ">>, <<"x">>, <<";">>, Lower(kwDROP) }

LLMReplies == Texts(ReplyTokens, MaxReplyTok)

\* a truthy reply object that is not a str
NonText == [obj |-> "content-parts"]

Schemas == { <<>>, <<"t">> }

Exceptions == { "TypeError", "ValueError" }

\* column value kinds of a SELECT result: numeric dtype or anything else
Layouts ==
    { <<"cat">>, <<"num">>, <<"cat", "num">>, <<"num", "num">>,
      <<"cat", "num", "num">> }

ColumnNames(ks) == [i \in 1..Len(ks) |-> <<"c", i>>]

RowsOf(ks, n) == [i \in 1..n |-> [j \in 1..Len(ks) |-> i]]

ResultSets ==
    { [columns |-> ColumnNames(ks), kinds |-> ks, rows |-> RowsOf(ks, n)] :
        ks \in Layouts, n \in 0..MaxRows }

----------------------------------------------------------------------------
(* Messages *)

Msg(t) == [msg |-> t]

MsgE(t, e) == [msg |-> t, cause |-> e]

ErrNotUnderstood == Msg("I couldn't understand your query.")

ErrExecFailed == Msg("The SQL query was generated but failed to execute.")

ErrProcessing(e) == MsgE("An error occurred while processing your query", e)

NoResultsSummary == Msg("No results were found for this query.")

DegradedSummary(e) == MsgE("Results retrieved successfully, but couldn't generate summary", e)

LLMSummary == Msg("<model text>")

----------------------------------------------------------------------------
(* SummaryAgent *)

\* SummaryAgent._generate_fallback_summary(sql_query, row_count)
generate_fallback_summary(row_count) ==
    IF row_count = 0 THEN Msg("No results found for this query.")
    ELSE IF row_count = 1 THEN Msg("The query returned 1 result.")
    ELSE [msg |-> "The query successfully returned <n> results.", n |-> row_count]

\* SummaryAgent._generate_summary: llm is the value call_llm returned, or
\* [raised |-> e] when it raised
\* _generate_summary handing on an empty reply instead of the fallback
generate_summary_mut(llm, row_count) ==
    IF "raised" \in DOMAIN llm THEN generate_fallback_summary(row_count)
    ELSE IF Truthy(llm) THEN llm
    ELSE None

generate_summary(llm, row_count) ==
    IF "raised" \in DOMAIN llm THEN generate_fallback_summary(row_count)
    ELSE IF Truthy(llm) THEN llm
    ELSE generate_fallback_summary(row_count)

----------------------------------------------------------------------------
(* VisualizationAgent *)

kwCOUNT == <<"C","O","U","N","T">>

kwSUM == <<"S","U","M">>

kwAVG == <<"A","V","G">>

kwGROUPBY == <<"G","R","O","U","P"," ","B","Y">>

kwMAX == <<"M","A","X">>

kwMIN == <<"M","I","N">>

aggregation_keywords == {kwCOUNT, kwSUM, kwAVG, kwGROUPBY, kwMAX, kwMIN}

CountKind(ks, k) == Cardinality({ i \in 1..Len(ks) : ks[i] = k })

\* _detect_chart_type choosing pie only below seven rows
detect_chart_type_mut(num_rows, ks, sql) ==
    LET num_cols == Len(ks)
        numeric == CountKind(ks, "num")
        categorical == num_cols - numeric
        is_aggregation ==
            /\ Truthy(sql)
            /\ \E kw \in aggregation_keywords : Contains(Upper(sql.str), kw)
    IN  IF num_rows < 1 \/ num_cols < 1 THEN "none"
        ELSE IF num_rows = 1 /\ num_cols > 2 THEN "none"
        ELSE IF num_cols = 2 /\ categorical = 1 /\ numeric = 1
             THEN (IF num_rows < 7 THEN "pie" ELSE "bar")
        ELSE IF num_cols = 2 /\ numeric = 2 THEN "scatter"
        ELSE IF categorical >= 1 /\ numeric >= 1 THEN "bar"
        ELSE IF is_aggregation THEN "bar"
        ELSE IF num_rows > 10 /\ numeric >= 1 THEN "line"
        ELSE IF categorical >= 1 THEN "bar"
        ELSE "none"

\* VisualizationAgent._detect_chart_type(df, columns, sql_query)
detect_chart_type(num_rows, ks, sql) ==
    LET num_cols == Len(ks)
        numeric == CountKind(ks, "num")
        categorical == num_cols - numeric
        is_aggregation ==
            /\ Truthy(sql)
            /\ \E kw \in aggregation_keywords : Contains(Upper(sql.str), kw)
    IN  IF num_rows < 1 \/ num_cols < 1 THEN "none"
        ELSE IF num_rows = 1 /\ num_cols > 2 THEN "none"
        ELSE IF num_cols = 2 /\ categorical = 1 /\ numeric = 1
             THEN (IF num_rows <= 7 THEN "pie" ELSE "bar")
        ELSE IF num_cols = 2 /\ numeric = 2 THEN "scatter"
        ELSE IF categorical >= 1 /\ numeric >= 1 THEN "bar"
        ELSE IF is_aggregation THEN "bar"
        ELSE IF num_rows > 10 /\ numeric >= 1 THEN "line"
        ELSE IF categorical >= 1 THEN "bar"
        ELSE "none"

\* the descriptor VisualizationAgent.process returns
Descriptor(chart_type, figure, recommendation) ==
    [chart_type |-> chart_type, figure |-> figure,
     recommendation |-> recommendation]

\* df.select_dtypes(...).columns.tolist() and the columns not in it
numeric_cols(cols, ks) ==
    LET idx == SelectSeq([i \in 1..Len(cols) |-> i], LAMBDA i : ks[i] = "num")
    IN  [j \in 1..Len(idx) |-> cols[idx[j]]]

categorical_cols(cols, ks) ==
    SelectSeq(cols, LAMBDA c :
        \A j \in 1..Len(numeric_cols(cols, ks)) : numeric_cols(cols, ks)[j] # c)

\* the x axis of a chart over the row index instead of a column
DfIndex == [index |-> TRUE]

\* _generate_chart taking the last categorical column as x
generate_chart_mut(cols, ks, num_rows, chart_type) ==
    LET nums == numeric_cols(cols, ks)
        cats == categorical_cols(cols, ks)
        x_col == IF cats # <<>> THEN cats[Len(cats)] ELSE cols[1]
        y_col == IF nums # <<>> THEN nums[1] ELSE cols[Len(cols)]
    IN  IF chart_type = "scatter"
        THEN IF Len(nums) >= 2
             THEN [figure_of |-> "scatter", x |-> nums[1], y |-> nums[2],
                   trendline |-> num_rows > 3]
             ELSE [figure_of |-> "scatter", x |-> DfIndex, y |-> y_col,
                   trendline |-> FALSE]
        ELSE [figure_of |-> IF chart_type \in {"bar", "pie", "line"}
                            THEN chart_type ELSE "bar",
              x |-> x_col, y |-> y_col, trendline |-> FALSE]

\* the figure _generate_chart builds: its kind, its axes and whether it
\* has a trend line
generate_chart(cols, ks, num_rows, chart_type) ==
    LET nums == numeric_cols(cols, ks)
        cats == categorical_cols(cols, ks)
        x_col == IF cats # <<>> THEN cats[1] ELSE cols[1]
        y_col == IF nums # <<>> THEN nums[1] ELSE cols[Len(cols)]
    IN  IF chart_type = "scatter"
        THEN IF Len(nums) >= 2
             THEN [figure_of |-> "scatter", x |-> nums[1], y |-> nums[2],
                   trendline |-> num_rows > 3]
             ELSE [figure_of |-> "scatter", x |-> DfIndex, y |-> y_col,
                   trendline |-> FALSE]
        ELSE [figure_of |-> IF chart_type \in {"bar", "pie", "line"}
                            THEN chart_type ELSE "bar",
              x |-> x_col, y |-> y_col, trendline |-> FALSE]

\* VisualizationAgent.process letting a construction failure escape
visualization_process_mut(cols, rws, ks, sql, df, gen) ==
    IF ~Truthy(rws) THEN None
    ELSE IF df # "ok" THEN [raised |-> df]
    ELSE LET chart_type == detect_chart_type(Len(rws.list), ks, sql)
         IN  IF chart_type = "none"
             THEN Descriptor("none", None,
                             Msg("This data is best viewed as a table."))
             ELSE IF gen = "ok"
             THEN Descriptor(chart_type,
                             generate_chart(cols.list, ks, Len(rws.list),
                                            chart_type),
                             [msg |-> "<recommendation>", chart |-> chart_type])
             ELSE [raised |-> gen]

\* VisualizationAgent.process: df is "ok" or the exception raised while the
\* DataFrame was built, gen the same for _generate_chart
visualization_process(cols, rws, ks, sql, df, gen) ==
    IF ~Truthy(rws) THEN None
    ELSE IF df # "ok" THEN [raised |-> df]
    ELSE LET chart_type == detect_chart_type(Len(rws.list), ks, sql)
         IN  IF chart_type = "none"
             THEN Descriptor("none", None,
                             Msg("This data is best viewed as a table."))
             ELSE IF gen = "ok"
             THEN Descriptor(chart_type,
                             generate_chart(cols.list, ks, Len(rws.list),
                                            chart_type),
                             [msg |-> "<recommendation>", chart |-> chart_type])
             ELSE Descriptor("error", None,
                             MsgE("Could not generate visualization", gen))

----------------------------------------------------------------------------
(* ChatAgent.process, one request at a time *)

\* a collaborator call and the kind of value it returned
Ev(op, ret) == [op |-> op, ret |-> ret]

EmptyResult ==
    [success |-> FALSE, sql_query |-> None, columns |-> None, rows |-> None,
     summary |-> None, visualization |-> None, error |-> None]

Init ==
    /\ pc = "idle"
    /\ schema = None
    /\ current_schema = None
    /\ sql_query = None
    /\ columns = None
    /\ rows = None
    /\ kinds = <<>>
    /\ result = EmptyResult
    /\ log = <<>>
    /\ generated = None
    /\ executed = None
    /\ committed = FALSE
    /\ conversation_history = NoHistory
    /\ GateIdle
    /\ ChartIdle
    /\ CleanIdle
    /\ ThreadsIdle
    /\ HttpIdle
    /\ DbIdle
    /\ RestIdle

\* no request in flight
PipeIdle ==
    /\ pc = "idle"
    /\ schema = None
    /\ current_schema = None
    /\ sql_query = None
    /\ columns = None
    /\ rows = None
    /\ kinds = <<>>
    /\ result = EmptyResult
    /\ log = <<>>
    /\ generated = None
    /\ executed = None
    /\ committed = FALSE
    /\ conversation_history = NoHistory

\* call_llm recording the exchange whether or not history is enabled
call_llm_history_mut(history, user_message, response, use_history) ==
    IF "raised" \in DOMAIN response THEN history
    ELSE IF Truthy(response)
    THEN history \o <<[role |-> "user", content |-> user_message],
                      [role |-> "assistant", content |-> response]>>
    ELSE history

\* Agent.call_llm: the conversation_history it leaves, for the value (or
\* [raised |-> e]) that chat_completion gave
call_llm_history(history, user_message, response, use_history) ==
    IF "raised" \in DOMAIN response THEN history
    ELSE IF Truthy(response) /\ use_history
    THEN history \o <<[role |-> "user", content |-> user_message],
                      [role |-> "assistant", content |-> response]>>
    ELSE history

\* ChatAgent.process entry: the response is initialised and set_schema runs
Request(sch) ==
    /\ pc \in {"idle", "done"}
    /\ pc' = "generate"
    /\ schema' = Str(sch)
    /\ current_schema' = Str(sch)
    /\ sql_query' = None
    /\ columns' = None
    /\ rows' = None
    /\ kinds' = <<>>
    /\ result' = EmptyResult
    /\ log' = <<Ev("set_schema", "ok")>>
    /\ generated' = None
    /\ executed' = None
    /\ UNCHANGED <<committed, conversation_history, g_sql, g_ret, extVars>>

\* what SQLAgent.process returns on failure
NoneTuple == [sql_query |-> None, columns |-> None, rows |-> None]

\* step 1 returning on an execution failure without an error message
chat_step1_noerr(res, t) ==
    IF t.sql_query = None
    THEN [result |-> [res EXCEPT !.error = ErrNotUnderstood], returned |-> TRUE]
    ELSE IF t.columns = None \/ t.rows = None
    THEN [result |-> [res EXCEPT !.sql_query = t.sql_query], returned |-> TRUE]
    ELSE [result |-> [res EXCEPT !.sql_query = t.sql_query,
                                 !.columns = t.columns,
                                 !.rows = t.rows],
          returned |-> FALSE]

\* step 1 testing the result set for truth instead of for None
chat_step1_falsy(res, t) ==
    IF t.sql_query = None
    THEN [result |-> [res EXCEPT !.error = ErrNotUnderstood], returned |-> TRUE]
    ELSE IF ~Truthy(t.columns) \/ ~Truthy(t.rows)
    THEN [result |-> [res EXCEPT !.sql_query = t.sql_query,
                                 !.error = ErrExecFailed],
          returned |-> TRUE]
    ELSE [result |-> [res EXCEPT !.sql_query = t.sql_query,
                                 !.columns = t.columns,
                                 !.rows = t.rows],
          returned |-> FALSE]

\* step 1 going on to the later stages after an execution failure
chat_step1_goon(res, t) ==
    IF t.sql_query = None
    THEN [result |-> [res EXCEPT !.error = ErrNotUnderstood], returned |-> TRUE]
    ELSE IF t.columns = None \/ t.rows = None
    THEN [result |-> [res EXCEPT !.sql_query = t.sql_query,
                                 !.error = ErrExecFailed],
          returned |-> FALSE]
    ELSE [result |-> [res EXCEPT !.sql_query = t.sql_query,
                                 !.columns = t.columns,
                                 !.rows = t.rows],
          returned |-> FALSE]

\* step 1 of ChatAgent.process after SQLAgent.process returned t: the
\* response, and whether process returns it at once
chat_step1(res, t) ==
    IF t.sql_query = None
    THEN [result |-> [res EXCEPT !.error = ErrNotUnderstood], returned |-> TRUE]
    ELSE IF t.columns = None \/ t.rows = None
    THEN [result |-> [res EXCEPT !.sql_query = t.sql_query,
                                 !.error = ErrExecFailed],
          returned |-> TRUE]
    ELSE [result |-> [res EXCEPT !.sql_query = t.sql_query,
                                 !.columns = t.columns,
                                 !.rows = t.rows],
          returned |-> FALSE]

\* step 1 of ChatAgent.process when SQLAgent.process raised e
chat_step1_except(res, e) ==
    [result |-> [res EXCEPT !.error = ErrProcessing(e)], returned |-> TRUE]

\* the prefix test of SQLAgent.process
IsSelectStatement(q) == StartsWith(Upper(Strip(q)), kwSELECT)

\* the kind of value call_llm returned
ReplyKind(response) ==
    IF response = None THEN "none"
    ELSE IF response = Str(<<>>) THEN "empty"
    ELSE IF "raised" \in DOMAIN response THEN "raise"
    ELSE IF "str" \in DOMAIN response THEN "text"
    ELSE "object"

\* SQLAgent._generate_sql on the reply of call_llm; [raised |-> e] when the
\* reply is not a str
generate_sql(response) ==
    IF ~Truthy(response) THEN None
    ELSE IF "str" \notin DOMAIN response THEN [raised |-> "AttributeError"]
    ELSE Str(clean_sql_response(response.str))

\* the schema test of SQLAgent.process (schema or self.current_schema)
no_schema_mut(sch, cur) ==
    LET schema_to_use == IF Truthy(sch) THEN sch ELSE cur
    IN  schema_to_use = None

no_schema(sch, cur) ==
    LET schema_to_use == IF Truthy(sch) THEN sch ELSE cur
    IN  ~Truthy(schema_to_use)

\* the tests of SQLAgent.process on the generated query: "no_sql" or
\* "not_select" when it returns the failure tuple, "execute" when it goes on
sql_process_check(q) ==
    IF ~Truthy(q) THEN "no_sql"
    ELSE IF ~IsSelectStatement(q.str) THEN "not_select"
    ELSE "execute"

\* SQLAgent.process up to the prefix test, with the language model's reply
\* as input, and step 1 of ChatAgent.process on a failure
Generate(response) ==
    /\ pc = "generate"
    /\ IF no_schema(schema, current_schema)
       THEN /\ result' = chat_step1(result, NoneTuple).result
            /\ pc' = "done"
            /\ UNCHANGED <<log, generated, sql_query, conversation_history>>
       ELSE LET q == generate_sql(response)
            IN  /\ log' = Append(log, Ev("call_llm", ReplyKind(response)))
                /\ conversation_history' =
                      [conversation_history EXCEPT
                         !.sql = call_llm_history(@, "prompt", response, FALSE)]
                /\ IF "raised" \in DOMAIN q
                   THEN /\ result' = chat_step1_except(result, q.raised).result
                        /\ pc' = "done"
                        /\ UNCHANGED <<generated, sql_query>>
                   ELSE /\ generated' = q
                        /\ IF sql_process_check(q) = "execute"
                           THEN /\ sql_query' = q
                                /\ pc' = "execute"
                                /\ UNCHANGED result
                           ELSE /\ result' = chat_step1(result, NoneTuple).result
                                /\ pc' = "done"
                                /\ UNCHANGED sql_query
    /\ UNCHANGED <<schema, current_schema, columns, rows, kinds, executed,
                   committed, g_sql, g_ret, extVars>>

\* what cur.execute does when the statement fails
DbError == [raised |-> "sqlite3.Error"]

\* run_query testing for the keyword without lower-casing the statement
run_query_mut(sql, db) ==
    IF db = DbError THEN DbError
    ELSE IF StartsWith(Strip(sql), kwselect)
         THEN [columns |-> db.columns, kinds |-> db.kinds, rows |-> db.rows,
               commit |-> FALSE]
         ELSE [columns |-> <<>>, kinds |-> <<>>, rows |-> <<>>, commit |-> TRUE]

\* run_query(sql): db is the outcome of cur.execute, DbError or the result
\* of the statement
run_query(sql, db) ==
    IF db = DbError THEN DbError
    ELSE IF StartsWith(Lower(Strip(sql)), kwselect)
         THEN [columns |-> db.columns, kinds |-> db.kinds, rows |-> db.rows,
               commit |-> FALSE]
         ELSE [columns |-> <<>>, kinds |-> <<>>, rows |-> <<>>, commit |-> TRUE]

\* the execution step returning the failure tuple when run_query raises
sql_process_execute_mut(q, r) ==
    IF "raised" \in DOMAIN r
    THEN [sql_query |-> None, columns |-> None, rows |-> None]
    ELSE [sql_query |-> q, columns |-> List(r.columns), rows |-> List(r.rows)]

\* the execution step of SQLAgent.process: the tuple it returns for what
\* run_query did
sql_process_execute(q, r) ==
    IF "raised" \in DOMAIN r
    THEN [sql_query |-> q, columns |-> None, rows |-> None]
    ELSE [sql_query |-> q, columns |-> List(r.columns), rows |-> List(r.rows)]

\* the execution step of SQLAgent.process and step 1 of ChatAgent.process
Execute(db) ==
    /\ pc = "execute"
    /\ executed' = sql_query
    /\ LET r == run_query(sql_query.str, db)
           t == sql_process_execute(sql_query, r)
           c == chat_step1(result, t)
       IN  /\ log' = Append(log, Ev("run_query",
                        IF "raised" \in DOMAIN r THEN "raise" ELSE "ok"))
           /\ columns' = t.columns
           /\ rows' = t.rows
           /\ kinds' = IF "raised" \in DOMAIN r THEN <<>> ELSE r.kinds
           /\ committed' = (committed \/ ("commit" \in DOMAIN r /\ r.commit))
           /\ result' = c.result
           /\ pc' = IF c.returned THEN "done" ELSE "summary"
    /\ UNCHANGED <<schema, current_schema, sql_query, generated,
                   conversation_history, g_sql, g_ret, extVars>>

\* SummaryAgent.process without the short-circuit on an empty result
summary_process_mut(rws, fmt, llm) ==
    IF fmt # "ok" THEN [raised |-> fmt]
    ELSE generate_summary(llm, IF rws = None THEN 0 ELSE Len(rws.list))

\* SummaryAgent.process: fmt is "ok" or the exception _format_results
\* raised, llm the value call_llm returned or [raised |-> e]
summary_process(rws, fmt, llm) ==
    IF ~Truthy(rws) THEN NoResultsSummary
    ELSE IF fmt # "ok" THEN [raised |-> fmt]
    ELSE generate_summary(llm, Len(rws.list))

\* the calls SummaryAgent.process makes to call_llm, each with the value
\* call_llm returned (or raised)
summary_calls(rws, fmt, llm) ==
    IF ~Truthy(rws) THEN <<>>
    ELSE IF fmt # "ok" THEN <<>>
    ELSE <<[op |-> "call_llm", ret |-> ReplyKind(llm), val |-> llm]>>

\* step 2 treating a summary exception as fatal
chat_step2_fatal(res, summary) ==
    IF "raised" \in DOMAIN summary
    THEN [result |-> [res EXCEPT !.error = ErrProcessing(summary.raised)],
          returned |-> TRUE]
    ELSE [result |-> [res EXCEPT !.summary = summary], returned |-> FALSE]

\* step 2 swallowing a summary exception without a note
chat_step2_nonote(res, summary) ==
    IF "raised" \in DOMAIN summary
    THEN [result |-> res, returned |-> FALSE]
    ELSE [result |-> [res EXCEPT !.summary = summary], returned |-> FALSE]

\* step 2 of ChatAgent.process for the outcome of SummaryAgent.process
chat_step2(res, summary) ==
    IF "raised" \in DOMAIN summary
    THEN [result |-> [res EXCEPT !.summary = DegradedSummary(summary.raised)],
          returned |-> FALSE]
    ELSE [result |-> [res EXCEPT !.summary = summary], returned |-> FALSE]

Summarize(fmt, llm) ==
    /\ pc = "summary"
    /\ LET summary == summary_process(rows, fmt, llm)
           c == chat_step2(result, summary)
       IN  /\ result' = c.result
           /\ pc' = IF c.returned THEN "done" ELSE "visualize"
           /\ log' = log \o summary_calls(rows, fmt, llm) \o
                        <<Ev("summary", IF "raised" \in DOMAIN summary
                                        THEN "raise" ELSE "ok")>>
           /\ conversation_history' =
                 IF summary_calls(rows, fmt, llm) = <<>>
                 THEN conversation_history
                 ELSE [conversation_history EXCEPT
                         !.summary = call_llm_history(@, "prompt", llm, FALSE)]
    /\ UNCHANGED <<schema, current_schema, sql_query, columns, rows, kinds,
                   generated, executed, committed, g_sql, g_ret, extVars>>

\* step 3 reporting a visualization exception as a failed request
chat_step3_fatal(res, viz_result) ==
    IF "raised" \in DOMAIN viz_result
    THEN [res EXCEPT !.visualization = None,
                     !.error = ErrProcessing(viz_result.raised)]
    ELSE IF viz_result # None /\ viz_result.figure # None
    THEN [res EXCEPT !.visualization = viz_result, !.success = TRUE]
    ELSE [res EXCEPT !.success = TRUE]

\* step 3 handing on every descriptor, with or without a figure
chat_step3_nofig(res, viz_result) ==
    IF "raised" \in DOMAIN viz_result
    THEN [res EXCEPT !.visualization = None, !.success = TRUE]
    ELSE IF viz_result # None
    THEN [res EXCEPT !.visualization = viz_result, !.success = TRUE]
    ELSE [res EXCEPT !.success = TRUE]

\* step 3 of ChatAgent.process for the outcome of VisualizationAgent.process
chat_step3(res, viz_result) ==
    IF "raised" \in DOMAIN viz_result
    THEN [res EXCEPT !.visualization = None, !.success = TRUE]
    ELSE IF viz_result # None /\ viz_result.figure # None
    THEN [res EXCEPT !.visualization = viz_result, !.success = TRUE]
    ELSE [res EXCEPT !.success = TRUE]

Visualize(df, gen) ==
    /\ pc = "visualize"
    /\ LET viz_result == visualization_process(columns, rows, kinds, sql_query,
                                               df, gen)
       IN  /\ log' = Append(log, Ev("visualize",
                        IF "raised" \in DOMAIN viz_result THEN "raise" ELSE "ok"))
           /\ result' = chat_step3(result, viz_result)
    /\ pc' = "done"
    /\ UNCHANGED <<schema, current_schema, sql_query, columns, rows, kinds,
                   generated, executed, committed,
                   conversation_history, g_sql, g_ret, extVars>>

Outcomes == {"ok"} \cup Exceptions

LLMValues ==
    {None, Str(<<>>), LLMSummary, Msg("<another model text>"),
     [raised |-> "Timeout"]}

Next ==
    \/ \E sch \in Schemas : Request(sch)
    \/ \E response \in {None, NonText} \cup { Str(t) : t \in LLMReplies } :
          Generate(response)
    \/ \E db \in {DbError} \cup ResultSets : Execute(db)
    \/ \E fmt \in Outcomes, llm \in LLMValues : Summarize(fmt, llm)
    \/ \E df \in Outcomes, gen \in Outcomes : Visualize(df, gen)

Spec == Init /\ [][Next]_vars

----------------------------------------------------------------------------
(* validate_query called directly on a text *)

InitGate ==
    /\ pc = "idle"
    /\ schema = None
    /\ current_schema = None
    /\ sql_query = None
    /\ columns = None
    /\ rows = None
    /\ kinds = <<>>
    /\ result = EmptyResult
    /\ log = <<>>
    /\ generated = None
    /\ executed = None
    /\ committed = FALSE
    /\ conversation_history = NoHistory
    /\ g_sql \in { Str(t) : t \in GateInputs }
    /\ g_ret = None
    /\ ChartIdle
    /\ CleanIdle
    /\ ThreadsIdle
    /\ HttpIdle
    /\ DbIdle
    /\ RestIdle

Validate ==
    /\ g_ret = None
    /\ g_ret' = Bool(validate_query(g_sql.str))
    /\ UNCHANGED <<g_sql, pipeVars, extVars>>

NextGate == Validate

SpecGate == InitGate /\ [][NextGate]_vars

----------------------------------------------------------------------------
(* _detect_chart_type called directly on a result shape *)

MaxChartRows == 11

MaxCols == 3

ChartKinds == UNION { [1..k -> {"num", "cat"}] : k \in 0..MaxCols }

ChartSqls ==
    {None, Str(kwselect \o <<" ">> \o <<"x">>)}
        \cup { Str(Lower(kw)) : kw \in aggregation_keywords }

InitChart ==
    /\ PipeIdle
    /\ GateIdle
    /\ chart \in [num_rows : 0..MaxChartRows, kinds : ChartKinds,
                  sql : ChartSqls, ret : {"pending"}]
    /\ CleanIdle
    /\ ThreadsIdle
    /\ HttpIdle
    /\ DbIdle
    /\ RestIdle

Detect ==
    /\ chart.ret = "pending"
    /\ chart' = [chart EXCEPT
                   !.ret = detect_chart_type(chart.num_rows, chart.kinds, chart.sql)]
    /\ UNCHANGED <<pipeVars, gateVars, clean, threads, http, dbpath,
                   restVars>>

NextChart == Detect

SpecChart == InitChart /\ [][NextChart]_vars

----------------------------------------------------------------------------
(* _clean_sql_response called directly on a reply, and again on its result *)

MaxCleanTok == 4

stmtSelectAll ==
    <<"S","E","L","E","C","T"," ","*"," ","F","R","O","M"," ","t">>

CleanTokens ==
    { <<"S","u","r","e","!"," ">>, Lower(fenceSQL) \o <<"\n">>, stmtSelectAll,
      <<"\n">> \o fence, <<" ">>, <<";">>, kwselect, <<"x">> }

CleanInputs == Texts(CleanTokens, MaxCleanTok)

InitClean ==
    /\ PipeIdle
    /\ GateIdle
    /\ ChartIdle
    /\ clean \in [arg : { Str(t) : t \in CleanInputs }, ret : {None}, again : {None}]
    /\ ThreadsIdle
    /\ HttpIdle
    /\ DbIdle
    /\ RestIdle

Clean ==
    /\ clean.ret = None
    /\ clean' = [clean EXCEPT !.ret = Str(clean_sql_response(clean.arg.str))]
    /\ UNCHANGED <<pipeVars, gateVars, chart, threads, http, dbpath,
                   restVars>>

CleanAgain ==
    /\ clean.ret # None
    /\ clean.again = None
    /\ clean' = [clean EXCEPT !.again = Str(clean_sql_response(clean.ret.str))]
    /\ UNCHANGED <<pipeVars, gateVars, chart, threads, http, dbpath,
                   restVars>>

NextClean == Clean \/ CleanAgain

SpecClean == InitClean /\ [][NextClean]_vars

----------------------------------------------------------------------------
(* Two requests running ChatAgent.process on the singleton agents, one
   thread each; a step ends where the thread next touches the shared
   SQLAgent.current_schema *)

Requests == {1, 2}

ConcSchemas == {<<>>, <<"a">>, <<"b">>}

\* the language model's reply to, and the result set of, request r
ReplyFor(r) == Str(kwSELECT \o <<" ", IF r = 1 THEN "1" ELSE "2">>)

ResultFor(r) ==
    [columns |-> ColumnNames(<<"num">>), kinds |-> <<"num">>, rows |-> <<<<r>>>>]

SummaryFor(r) == Msg(<<"<model text>", r>>)

\* schema or self.current_schema
schema_to_use(sch, cur) == IF Truthy(sch) THEN sch ELSE cur

InitConc ==
    /\ PipeIdle
    /\ GateIdle
    /\ ChartIdle
    /\ CleanIdle
    /\ threads \in [Requests -> [pc : {"start"},
                                 schema : { Str(s) : s \in ConcSchemas },
                                 schema_to_use : {None},
                                 sql_query : {None},
                                 result : {EmptyResult}]]
    /\ HttpIdle
    /\ DbIdle
    /\ RestIdle

\* self.sql_agent.set_schema(schema)
CSetSchema(r) ==
    /\ threads[r].pc = "start"
    /\ current_schema' = threads[r].schema
    /\ threads' = [threads EXCEPT ![r].pc = "process"]
    /\ UNCHANGED <<seqVars, gateVars, chart, clean, http, dbpath,
                   restVars>>

\* SQLAgent.process: the choice of the schema for the prompt
CSchemaToUse(r) ==
    /\ threads[r].pc = "process"
    /\ threads' =
          IF no_schema(threads[r].schema, current_schema)
          THEN [threads EXCEPT
                  ![r].result = chat_step1(threads[r].result, NoneTuple).result,
                  ![r].pc = "done"]
          ELSE [threads EXCEPT
                  ![r].schema_to_use =
                      schema_to_use(threads[r].schema, current_schema),
                  ![r].pc = "generate"]
    /\ UNCHANGED <<pipeVars, gateVars, chart, clean, http, dbpath,
                   restVars>>

\* SQLAgent.process from _generate_sql on, and step 1 of ChatAgent.process
CExecute(r, response, db) ==
    /\ threads[r].pc = "generate"
    /\ LET q == generate_sql(response)
       IN  threads' =
             IF sql_process_check(q) # "execute"
             THEN [threads EXCEPT
                     ![r].result = chat_step1(threads[r].result, NoneTuple).result,
                     ![r].pc = "done"]
             ELSE LET t == sql_process_execute(q, run_query(q.str, db))
                      c == chat_step1(threads[r].result, t)
                  IN  [threads EXCEPT
                         ![r].sql_query = q,
                         ![r].result = c.result,
                         ![r].pc = IF c.returned THEN "done" ELSE "summary"]
    /\ UNCHANGED <<pipeVars, gateVars, chart, clean, http, dbpath,
                   restVars>>

\* steps 2 and 3 of ChatAgent.process
CFinish(r, llm) ==
    /\ threads[r].pc = "summary"
    /\ LET res == threads[r].result
           summary == summary_process(res.rows, "ok", llm)
           c == chat_step2(res, summary)
           viz_result ==
               visualization_process(res.columns, res.rows, <<"num">>,
                                     threads[r].sql_query, "ok", "ok")
       IN  threads' = [threads EXCEPT ![r].result =
                                          chat_step3(c.result, viz_result),
                                      ![r].pc = "done"]
    /\ UNCHANGED <<pipeVars, gateVars, chart, clean, http, dbpath,
                   restVars>>

NextConc ==
    \E r \in Requests :
        \/ CSetSchema(r)
        \/ CSchemaToUse(r)
        \/ \E response \in {None, ReplyFor(r)}, db \in {DbError, ResultFor(r)} :
              CExecute(r, response, db)
        \/ \E llm \in {None, SummaryFor(r)} : CFinish(r, llm)

SpecConc == InitConc /\ [][NextConc]_vars

----------------------------------------------------------------------------
(* OpenRouterClient.chat_completion: one call, one step per HTTP attempt
   and per wait *)

max_retries_default == 3

MaxRetriesArg == 4

\* what one attempt can do: a response with content, a response without
\* choices, or an exception of one of the three handled classes
HttpOk(content) == [ok |-> content]

BadFormat == [format |-> "no choices"]

HTTPError == [raised |-> "HTTPError"]

RequestException == [raised |-> "RequestException"]

OtherException == [raised |-> "Exception"]

AttemptOutcomes ==
    { HttpOk(Str(<<"r", "1">>)), HttpOk(Str(<<"r", "2">>)), BadFormat,
      HTTPError, RequestException, OtherException }

\* the handler of a failed attempt waiting after the last attempt as well
after_failure_mut(attempt, max_retries) ==
    IF attempt < max_retries THEN "sleep" ELSE "return"

\* the handlers of HTTPError and RequestException in attempt number attempt
\* (counted from 0)
after_failure(attempt, max_retries) ==
    IF attempt < max_retries - 1 THEN "sleep" ELSE "return"

InitRetry ==
    /\ PipeIdle
    /\ GateIdle
    /\ ChartIdle
    /\ CleanIdle
    /\ ThreadsIdle
    /\ \E arg \in {None} \cup { [int |-> n] : n \in 0..MaxRetriesArg } :
          http = [arg |-> arg,
                  max_retries |-> IF arg = None THEN max_retries_default
                                  ELSE arg.int,
                  attempt |-> 0, pc |-> "loop", trace |-> <<>>, sleeps |-> 0,
                  ret |-> None]
    /\ DbIdle
    /\ RestIdle

\* requests.post ... return content / return None / the except clauses
Attempt(outcome) ==
    /\ http.pc = "loop"
    /\ http.attempt < http.max_retries
    /\ LET h == [http EXCEPT !.trace = Append(http.trace, outcome)]
       IN  http' =
             IF "ok" \in DOMAIN outcome
             THEN [h EXCEPT !.pc = "returned", !.ret = outcome.ok]
             ELSE IF outcome \in {HTTPError, RequestException}
             THEN IF after_failure(http.attempt, http.max_retries) = "sleep"
                  THEN [h EXCEPT !.pc = "sleep"]
                  ELSE [h EXCEPT !.pc = "returned", !.ret = None]
             ELSE [h EXCEPT !.pc = "returned", !.ret = None]
    /\ UNCHANGED <<pipeVars, gateVars, chart, clean, threads, dbpath,
                   restVars>>

\* time.sleep(retry_delay), then the next iteration
Sleep ==
    /\ http.pc = "sleep"
    /\ http' = [http EXCEPT !.pc = "loop", !.attempt = http.attempt + 1,
                            !.sleeps = http.sleeps + 1]
    /\ UNCHANGED <<pipeVars, gateVars, chart, clean, threads, dbpath,
                   restVars>>

\* the loop is exhausted: return None
LoopExit ==
    /\ http.pc = "loop"
    /\ http.attempt >= http.max_retries
    /\ http' = [http EXCEPT !.pc = "returned", !.ret = None]
    /\ UNCHANGED <<pipeVars, gateVars, chart, clean, threads, dbpath,
                   restVars>>

NextRetry ==
    \/ \E outcome \in AttemptOutcomes : Attempt(outcome)
    \/ Sleep
    \/ LoopExit

\* requests.post is bounded by timeout=30 and time.sleep by retry_delay, so
\* a pending step is eventually taken
SpecRetry == InitRetry /\ [][NextRetry]_vars /\ WF_vars(NextRetry)

----------------------------------------------------------------------------
(* The current-database path of core/db.py and the three functions on it *)

MaxCalls == 3

\* Path(s): s is the sequence of the components of the string; "."
\* components are dropped
Path(s) == [path |-> SelectSeq(s, LAMBDA c : c # ".")]

DB_PATH == Path(<<"test_db.sqlite">>)

PathArgs == {<<"a.db">>, <<".", "a.db">>, <<"b.db">>, <<"test_db.sqlite">>}

\* what a path is on disk: nothing, something sqlite3.connect opens,
\* something it does not open, or a path whose exists() raises
FileStatus == {"missing", "opens", "unopenable", "oserror"}

FileSystems == [{ Path(s) : s \in PathArgs } -> FileStatus]

\* set_database_path assigning the path before the connection is tried
set_database_path_mut(cur, fs, db_path) ==
    LET path == Path(db_path)
    IN  IF fs[path] = "oserror" THEN [ret |-> Bool(FALSE), current |-> cur]
        ELSE IF fs[path] = "missing" THEN [ret |-> Bool(FALSE), current |-> cur]
        ELSE IF fs[path] = "unopenable"
             THEN [ret |-> Bool(FALSE), current |-> path]
        ELSE [ret |-> Bool(TRUE), current |-> path]

\* set_database_path(db_path) with _current_db_path = cur: what it returns
\* and the new _current_db_path
set_database_path(cur, fs, db_path) ==
    LET path == Path(db_path)
    IN  IF fs[path] = "oserror" THEN [ret |-> Bool(FALSE), current |-> cur]
        ELSE IF fs[path] = "missing" THEN [ret |-> Bool(FALSE), current |-> cur]
        ELSE IF fs[path] = "unopenable"
             THEN [ret |-> Bool(FALSE), current |-> cur]
        ELSE [ret |-> Bool(TRUE), current |-> path]

InitDb ==
    /\ PipeIdle
    /\ GateIdle
    /\ ChartIdle
    /\ CleanIdle
    /\ ThreadsIdle
    /\ HttpIdle
    /\ RestIdle
    /\ dbpath \in [fs : FileSystems, current_db_path : {DB_PATH},
                   calls : {<<>>}]

DbCall(op, arg, ret, before, after) ==
    [op |-> op, arg |-> arg, ret |-> ret, before |-> before, after |-> after]

SetDatabasePath(db_path) ==
    /\ Len(dbpath.calls) < MaxCalls
    /\ LET r == set_database_path(dbpath.current_db_path, dbpath.fs, db_path)
       IN  dbpath' = [dbpath EXCEPT
                        !.current_db_path = r.current,
                        !.calls = Append(@, DbCall("set", Str(db_path), r.ret,
                                    dbpath.current_db_path, r.current))]
    /\ UNCHANGED <<pipeVars, gateVars, chart, clean, threads, http,
                   restVars>>

GetCurrentDatabasePath ==
    /\ Len(dbpath.calls) < MaxCalls
    /\ dbpath' = [dbpath EXCEPT
                    !.calls = Append(@, DbCall("get", None,
                                dbpath.current_db_path, dbpath.current_db_path,
                                dbpath.current_db_path))]
    /\ UNCHANGED <<pipeVars, gateVars, chart, clean, threads, http,
                   restVars>>

ResetToDefaultDatabase ==
    /\ Len(dbpath.calls) < MaxCalls
    /\ dbpath' = [dbpath EXCEPT
                    !.current_db_path = DB_PATH,
                    !.calls = Append(@, DbCall("reset", None, None,
                                dbpath.current_db_path, DB_PATH))]
    /\ UNCHANGED <<pipeVars, gateVars, chart, clean, threads, http,
                   restVars>>

\* get_connection(): the file it connects to when _current_db_path is cur
get_connection(cur) == DB_PATH

\* run_query(sql): the call records the file its connection is opened on
RunQuery ==
    /\ Len(dbpath.calls) < MaxCalls
    /\ dbpath' = [dbpath EXCEPT
                    !.calls = Append(@, DbCall("run_query", None,
                                get_connection(dbpath.current_db_path),
                                dbpath.current_db_path, dbpath.current_db_path))]
    /\ UNCHANGED <<pipeVars, gateVars, chart, clean, threads, http,
                   restVars>>

NextDb ==
    \/ \E db_path \in PathArgs : SetDatabasePath(db_path)
    \/ GetCurrentDatabasePath
    \/ ResetToDefaultDatabase
    \/ RunQuery

SpecDb == InitDb /\ [][NextDb]_vars

----------------------------------------------------------------------------
(* SummaryAgent._format_results called directly; the text is the sequence
   of its lines *)

max_rows_default == 20

MaxFormatRows == 22

FormatColumns == {<<"a">>, <<"a", "b">>, <<"a", "a">>}

\* n rows of two values each, all different
FormatRows(n) == [i \in 1..n |-> <<i, 0 - i>>]

Min(a, b) == IF a < b THEN a ELSE b

\* dict(zip(columns, row)): a later column of the same name wins
row_dict(cols, row) ==
    LET k == Min(Len(cols), Len(row))
    IN  [name \in { cols[j] : j \in 1..k } |->
            row[CHOOSE j \in 1..k :
                    /\ cols[j] = name
                    /\ \A m \in (j + 1)..k : cols[m] # name]]

\* _format_results announcing more rows when there are max_rows or more
format_results_mut(cols, rws, max_rows) ==
    LET display_rows == SubSeq(rws, 1, Min(Len(rws), max_rows))
        has_more == Len(rws) >= max_rows
    IN  <<[line |-> "Columns", columns |-> cols],
          [line |-> "Total rows", n |-> Len(rws)],
          [line |-> "Data"]>>
        \o [i \in 1..Len(display_rows) |->
               [line |-> "Row", i |-> i, dict |-> row_dict(cols, display_rows[i])]]
        \o (IF has_more
            THEN <<[line |-> "more rows", n |-> Len(rws) - max_rows]>>
            ELSE <<>>)

\* SummaryAgent._format_results(columns, rows, max_rows)
format_results(cols, rws, max_rows) ==
    LET display_rows == SubSeq(rws, 1, Min(Len(rws), max_rows))
        has_more == Len(rws) > max_rows
    IN  <<[line |-> "Columns", columns |-> cols],
          [line |-> "Total rows", n |-> Len(rws)],
          [line |-> "Data"]>>
        \o [i \in 1..Len(display_rows) |->
               [line |-> "Row", i |-> i, dict |-> row_dict(cols, display_rows[i])]]
        \o (IF has_more
            THEN <<[line |-> "more rows", n |-> Len(rws) - max_rows]>>
            ELSE <<>>)

InitFormat ==
    /\ PipeIdle
    /\ GateIdle
    /\ ChartIdle
    /\ CleanIdle
    /\ ThreadsIdle
    /\ HttpIdle
    /\ DbIdle
    /\ llm_call = None
    /\ viz = None
    /\ \E cols \in FormatColumns, n \in 0..MaxFormatRows :
          formatted = [columns |-> cols, rows |-> FormatRows(n), ret |-> None]

FormatResults ==
    /\ formatted.ret = None
    /\ formatted' = [formatted EXCEPT
                       !.ret = List(format_results(formatted.columns,
                                                   formatted.rows,
                                                   max_rows_default))]
    /\ UNCHANGED <<pipeVars, gateVars, chart, clean, threads, http, dbpath,
                   llm_call, viz>>

NextFormat == FormatResults

SpecFormat == InitFormat /\ [][NextFormat]_vars

----------------------------------------------------------------------------
(* VisualizationAgent.process called directly *)

InitViz ==
    /\ PipeIdle
    /\ GateIdle
    /\ ChartIdle
    /\ CleanIdle
    /\ ThreadsIdle
    /\ HttpIdle
    /\ DbIdle
    /\ llm_call = None
    /\ formatted = None
    /\ \E ks \in ChartKinds \ {<<>>}, n \in 0..MaxChartRows, sql \in ChartSqls,
          gen \in Outcomes :
          viz = [columns |-> List(ColumnNames(ks)), kinds |-> ks,
                 rows |-> List(RowsOf(ks, n)), sql_query |-> sql,
                 gen |-> gen, ret |-> [pending |-> TRUE]]

VizProcess ==
    /\ viz.ret = [pending |-> TRUE]
    /\ viz' = [viz EXCEPT !.ret = visualization_process(viz.columns, viz.rows,
                                     viz.kinds, viz.sql_query, "ok", viz.gen)]
    /\ UNCHANGED <<pipeVars, gateVars, chart, clean, threads, http, dbpath,
                   llm_call, formatted>>

NextViz == VizProcess

SpecViz == InitViz /\ [][NextViz]_vars

----------------------------------------------------------------------------
(* Agent.call_llm and Agent.reset_history called directly on the SQL agent,
   or the agents used through the pipeline only *)

MaxHistCalls == 3

MaxHistReplyTok == 2

HistMessages == {"m1", "m2"}

HistReplies == {None, Str(<<>>), Str(<<"r">>), [raised |-> "Timeout"]}

InitHist ==
    /\ PipeIdle
    /\ GateIdle
    /\ ChartIdle
    /\ CleanIdle
    /\ ThreadsIdle
    /\ HttpIdle
    /\ DbIdle
    /\ formatted = None
    /\ viz = None
    /\ llm_call = [n |-> 0, last |-> None]

CallLlm(user_message, response, use_history) ==
    /\ pc = "idle"
    /\ llm_call.n < MaxHistCalls
    /\ conversation_history' =
          [conversation_history EXCEPT
             !.sql = call_llm_history(@, user_message, response, use_history)]
    /\ llm_call' = [n |-> llm_call.n + 1,
                    last |-> [op |-> "call_llm", user_message |-> user_message,
                              response |-> response,
                              use_history |-> use_history,
                              before |-> conversation_history.sql]]
    /\ UNCHANGED <<requestVars, gateVars, chart, clean, threads, http, dbpath,
                   formatted, viz>>

ResetHistory ==
    /\ pc = "idle"
    /\ llm_call.n < MaxHistCalls
    /\ conversation_history' = [conversation_history EXCEPT !.sql = <<>>]
    /\ llm_call' = [n |-> llm_call.n + 1,
                    last |-> [op |-> "reset_history",
                              before |-> conversation_history.sql]]
    /\ UNCHANGED <<requestVars, gateVars, chart, clean, threads, http, dbpath,
                   formatted, viz>>

\* the requests of the pipeline, with replies of at most MaxHistReplyTok tokens
HistNext ==
    \/ \E sch \in Schemas : Request(sch)
    \/ \E response \in {None, NonText}
                          \cup { Str(t) : t \in Texts(ReplyTokens, MaxHistReplyTok) } :
          Generate(response)
    \/ \E db \in {DbError} \cup ResultSets : Execute(db)
    \/ \E fmt \in Outcomes, llm \in LLMValues : Summarize(fmt, llm)
    \/ \E df \in Outcomes, gen \in Outcomes : Visualize(df, gen)

NextHist ==
    \/ \E m \in HistMessages, response \in HistReplies, use \in BOOLEAN :
          CallLlm(m, response, use)
    \/ ResetHistory
    \/ (llm_call.n = 0 /\ HistNext)

SpecHist == InitHist /\ [][NextHist]_vars

----------------------------------------------------------------------------
(* Properties *)

Logged(op, ret) == \E i \in 1..Len(log) : log[i] = Ev(op, ret)

Called(op) == \E i \in 1..Len(log) : log[i].op = op

\* what the language model returned to the SQL agent, "not_called" if it
\* was not asked
SqlReplyKind ==
    IF Len(log) >= 2 /\ log[2].op = "call_llm" THEN log[2].ret ELSE "not_called"

\* C1: a string reaches run_query only if validate_query accepts it
C1_ExecutedOnlyIfGateAccepts ==
    executed # None => validate_query(executed.str)

\* kw occurs in t at some offset
OccursIn(kw, t) ==
    \E i \in 0..(Len(t) - Len(kw)) : \A j \in 1..Len(kw) : t[i + j] = kw[j]

\* the predicate the gate is specified to compute
GateOracle(s) ==
    LET t == Upper(Strip(s))
    IN  /\ Len(t) >= 6
        /\ \A j \in 1..6 : t[j] = kwSELECT[j]
        /\ \A kw \in {kwDROP, kwDELETE, kwINSERT, kwUPDATE,
                      kwALTER, kwCREATE, kwTRUNCATE, kwEXEC} : ~OccursIn(kw, t)

\* C2: validate_query returns true exactly for the texts that, trimmed and
\* upper-cased, begin with SELECT and contain no denylisted keyword
C2_GateExact ==
    g_ret # None => g_ret = Bool(GateOracle(g_sql.str))

C2_Witness ==
    /\ g_sql = Str(kwselect \o <<" ">> \o Lower(kwDELETE))
    /\ g_ret = Bool(FALSE)

\* C3: a response reports failure only when no result set was obtained;
\* once the execution stage has returned columns and rows the request
\* carries no error and ends with success
C3_FailureAsymmetry ==
    /\ (columns # None /\ rows # None) =>
          /\ pc \in {"summary", "visualize", "done"}
          /\ result.error = None
          /\ pc = "done" => result.success
    /\ (pc = "done" /\ ~result.success) =>
          /\ columns = None \/ rows = None
          /\ ~Called("summary")
          /\ ~Called("visualize")

C3_Witness ==
    /\ pc = "done"
    /\ result.success
    /\ Logged("summary", "raise")
    /\ Logged("visualize", "raise")

\* C4: a returned response has an error message exactly when success is
\* false
C4_ErrorIffFailure ==
    pc = "done" =>
        /\ result.error # None <=> ~result.success
        /\ result.error # None => "msg" \in DOMAIN result.error

C4_Witness ==
    /\ pc = "done"
    /\ ~result.success
    /\ result.error = ErrProcessing("AttributeError")

\* C5: after the summary agent raised, the response keeps the query and the
\* result set of the execution stage, carries the degraded note as summary,
\* and the request goes on to the visualization stage and ends with success
C5_SummaryFailureIsolated ==
    Logged("summary", "raise") =>
        /\ pc \in {"visualize", "done"}
        /\ result.summary # None
        /\ \E e \in Exceptions : result.summary = DegradedSummary(e)
        /\ executed # None
        /\ result.sql_query = executed
        /\ columns # None /\ result.columns = columns
        /\ rows # None /\ result.rows = rows
        /\ pc = "done" => (result.success /\ Called("visualize"))

C5_Witness ==
    /\ pc = "done"
    /\ Logged("summary", "raise")
    /\ result.success
    /\ result.visualization # None

\* C6: the step in which the visualization agent raises changes the
\* response only by setting success; visualization stays absent
C6_VisualizationFailureIsolated ==
    [][(pc = "visualize" /\ log'[Len(log')] = Ev("visualize", "raise")) =>
          /\ pc' = "done"
          /\ result'.success
          /\ result'.visualization = None
          /\ result' = [result EXCEPT !.success = TRUE]]_vars

C6_Witness ==
    /\ pc = "done"
    /\ Logged("visualize", "raise")
    /\ result.success
    /\ result.visualization = None
    /\ result.summary = LLMSummary

\* C7: a generated query the gate rejects is never executed and is
\* surfaced in the failed response
C7_RejectedQuerySurfaced ==
    (pc = "done" /\ generated # None /\ ~validate_query(generated.str)) =>
        /\ ~result.success
        /\ result.sql_query = generated
        /\ executed = None
        /\ ~Called("run_query")

\* C8: when no schema is available or the model returns nothing or an empty
\* reply, the response is the could-not-understand failure with every other
\* field null, and no later collaborator is invoked
C8_SynthesisFailure ==
    (pc = "done" /\ (~Truthy(schema) \/ SqlReplyKind \in {"none", "empty"})) =>
        /\ ~result.success
        /\ result.error = ErrNotUnderstood
        /\ result.sql_query = None
        /\ result.columns = None
        /\ result.rows = None
        /\ result.summary = None
        /\ result.visualization = None
        /\ executed = None
        /\ ~Called("run_query")
        /\ ~Called("summary")
        /\ ~Called("visualize")

C8_Witness ==
    /\ pc = "done"
    /\ Truthy(schema)
    /\ SqlReplyKind = "empty"
    /\ result.error = ErrNotUnderstood

C10_EmptyResultDistinct ==
    /\ (pc = "done" /\ Logged("run_query", "ok") /\ rows = List(<<>>)) =>
          /\ result.success
          /\ result.rows = List(<<>>)
          /\ result.columns # None
          /\ result.summary = NoResultsSummary
          /\ result.visualization = None
    /\ (pc = "done" /\ ~result.success) =>
          /\ result.rows = None
          /\ result.columns = None

C10_Witness ==
    /\ pc = "done"
    /\ Logged("run_query", "ok")
    /\ rows = List(<<>>)
    /\ result.success
    /\ result.columns # None

\* the ordered rules of the chart selector for n rows, column kinds ks and
\* SQL text sql
ChartRules(n, ks, sql) ==
    LET cols == Len(ks)
        nums == Cardinality({ i \in 1..cols : ks[i] = "num" })
        cats == Cardinality({ i \in 1..cols : ks[i] = "cat" })
        agg == /\ sql # None
               /\ \E kw \in {kwCOUNT, kwSUM, kwAVG, kwGROUPBY, kwMAX, kwMIN} :
                     OccursIn(kw, Upper(sql.str))
    IN  << [when |-> n = 0 \/ cols = 0, then |-> "none"],
           [when |-> n = 1 /\ cols > 2, then |-> "none"],
           [when |-> cols = 2 /\ cats = 1 /\ nums = 1 /\ n <= 7, then |-> "pie"],
           [when |-> cols = 2 /\ cats = 1 /\ nums = 1, then |-> "bar"],
           [when |-> cols = 2 /\ nums = 2, then |-> "scatter"],
           [when |-> cats >= 1 /\ nums >= 1, then |-> "bar"],
           [when |-> agg, then |-> "bar"],
           [when |-> n > 10 /\ nums >= 1, then |-> "line"],
           [when |-> cats >= 1, then |-> "bar"],
           [when |-> TRUE, then |-> "none"] >>

FirstMatch(rules) ==
    rules[CHOOSE i \in 1..Len(rules) :
            /\ rules[i].when
            /\ \A j \in 1..(i - 1) : ~rules[j].when].then

\* C11: _detect_chart_type returns one of bar, pie, line, scatter, none, and
\* it is the result of the first rule of the ordered cascade that matches
C11_ChartCascade ==
    chart # None /\ chart.ret # "pending" =>
        /\ chart.ret \in {"bar", "pie", "line", "scatter", "none"}
        /\ chart.ret = FirstMatch(ChartRules(chart.num_rows, chart.kinds, chart.sql))

C11_Witness ==
    /\ chart # None
    /\ chart.ret = "line"
    /\ chart.num_rows = 11
    /\ chart.sql # None

\* C12: reducing the result of a reduction again returns it unchanged
C12_Idempotent ==
    (clean # None /\ clean.again # None) => clean.again = clean.ret

\* C13: the reduced query ends with one semicolon that is preceded neither
\* by a semicolon nor by whitespace
C13_CanonicalTerminator ==
    (clean # None /\ clean.ret # None) =>
        LET s == clean.ret.str
        IN  /\ Len(s) >= 1
            /\ s[Len(s)] = ";"
            /\ Len(s) >= 2 => (s[Len(s) - 1] # ";" /\ ~IsSpace(s[Len(s) - 1]))

\* the reply after fence removal
AfterFences(r) == Strip(RemoveTrailingFence(RemoveSqlFences(Strip(r))))

\* a case-insensitive SELECT followed by whitespace starts at offset i of t
SelectWordAt(t, i) ==
    /\ i + 6 <= Len(t)
    /\ IsSpace(t[i + 6])
    /\ \A j \in 1..6 : UpperChar(t[i + j - 1]) = kwSELECT[j]

\* body is kept a prefix of kept, and what is dropped after it is made of
\* semicolons and whitespace only
KeptUpToTerminator(body, kept) ==
    /\ Len(body) <= Len(kept)
    /\ \A j \in 1..Len(body) : body[j] = kept[j]
    /\ \A j \in (Len(body) + 1)..Len(kept) : kept[j] = ";" \/ IsSpace(kept[j])

\* C14: when the reply, fences removed, contains SELECT followed by
\* whitespace, the reduced query is the text from the first such occurrence
\* on and begins with that keyword; otherwise the text is kept; in both
\* cases only the trailing semicolons and whitespace are normalised
C14_RecoversEmbeddedSelect ==
    (clean # None /\ clean.ret # None) =>
        LET t == AfterFences(clean.arg.str)
            out == clean.ret.str
            body == SubSeq(out, 1, Len(out) - 1)
        IN  /\ Len(out) >= 1 /\ out[Len(out)] = ";"
            /\ IF \E i \in 1..Len(t) : SelectWordAt(t, i)
               THEN \E i \in 1..Len(t) :
                       /\ SelectWordAt(t, i)
                       /\ \A j \in 1..(i - 1) : ~SelectWordAt(t, j)
                       /\ KeptUpToTerminator(body, From(t, i))
                       /\ Len(out) >= 6
                       /\ Upper(SubSeq(out, 1, 6)) = kwSELECT
               ELSE KeptUpToTerminator(body, t)

C14_Witness ==
    /\ clean # None
    /\ clean.arg = Str(<<"S","u","r","e","!"," ">> \o Lower(fenceSQL) \o <<"\n">>
                          \o stmtSelectAll \o <<"\n">> \o fence)
    /\ clean.ret = Str(stmtSelectAll \o <<";">>)

\* C15: the reduced query holds no semicolon other than its last character
C15_SingleStatement ==
    (clean # None /\ clean.ret # None) =>
        \A i \in 1..(Len(clean.ret.str) - 1) : clean.ret.str[i] # ";"


\* the events of the interpreter's own calls to the language model
SummaryLLMCalls == { i \in 1..Len(log) : "val" \in DOMAIN log[i] }

\* C16: the interpreter run on a result set without rows returns the fixed
\* no-results message and does not call the language model
C16_EmptyShortCircuit ==
    (Called("summary") /\ ~Truthy(rows)) =>
        /\ Logged("summary", "ok")
        /\ result.summary = NoResultsSummary
        /\ SummaryLLMCalls = {}

C16_Witness ==
    /\ Logged("summary", "ok")
    /\ rows = List(<<>>)
    /\ result.summary = NoResultsSummary
    /\ pc = "done"

\* the templated text for n rows
TemplatedSummary(n) ==
    IF n = 1 THEN Msg("The query returned 1 result.")
    ELSE IF n > 1
    THEN [msg |-> "The query successfully returned <n> results.", n |-> n]
    ELSE Msg("No results found for this query.")

C18_RequestLocal ==
    threads # None =>
        \A r \in Requests :
            /\ threads[r].schema_to_use # None =>
                  threads[r].schema_to_use = threads[r].schema
            /\ LET res == threads[r].result
               IN  /\ res.sql_query \in {None, Str(ReplyFor(r).str \o <<";">>)}
                   /\ res.rows \in {None, List(ResultFor(r).rows)}
                   /\ res.summary \in {None, SummaryFor(r),
                                       generate_fallback_summary(1)}


Retryable(o) == o \in {HTTPError, RequestException}

\* what holds of the call at every moment
RetryInv ==
    http # None =>
        LET n == Len(http.trace)
        IN  /\ n <= http.max_retries
            /\ \A k \in 1..(n - 1) : Retryable(http.trace[k])
            /\ http.ret \in {None} \cup { o.ok : o \in { x \in AttemptOutcomes :
                                                     "ok" \in DOMAIN x } }
            /\ http.pc = "sleep" =>
                  /\ Retryable(http.trace[n])
                  /\ n < http.max_retries
                  /\ http.sleeps = n - 1
            /\ http.pc = "loop" => http.sleeps = n
            /\ http.pc = "returned" =>
                  /\ http.sleeps = IF n = 0 THEN 0 ELSE n - 1
                  /\ n = 0 => (http.max_retries = 0 /\ http.ret = None)
                  /\ n > 0 =>
                        /\ "ok" \in DOMAIN http.trace[n] =>
                              http.ret = http.trace[n].ok
                        /\ "ok" \notin DOMAIN http.trace[n] => http.ret = None
                        /\ Retryable(http.trace[n]) => n = http.max_retries
            /\ (n > 0 /\ ~Retryable(http.trace[n])) => http.pc = "returned"

\* C19: the call returns, after at most max_retries attempts: the content
\* of the first successful response, or None after max_retries failed
\* attempts, an unexpected format or another exception; it waits once after
\* each failed attempt but the last
C19_BoundedRetry ==
    /\ []RetryInv
    /\ <>(http # None /\ http.pc = "returned")

C19_Witness ==
    /\ http # None
    /\ http.arg = None
    /\ http.pc = "returned"
    /\ Len(http.trace) = 3
    /\ http.trace[3] = RequestException
    /\ http.sleeps = 2
    /\ http.ret = None


\* the path the calls made so far should have left current
RECURSIVE ExpectedPath(_)
ExpectedPath(calls) ==
    IF calls = <<>> THEN DB_PATH
    ELSE LET c == calls[Len(calls)]
         IN  IF c.op = "reset" THEN DB_PATH
             ELSE IF c.op = "set" /\ c.ret = Bool(TRUE) THEN Path(c.arg.str)
             ELSE ExpectedPath(SubSeq(calls, 1, Len(calls) - 1))

\* C20: set_database_path returns True and makes its argument current
\* exactly when the file exists and opens, and otherwise returns False and
\* changes nothing; a reset restores the default; the current path is the
\* default or the argument of the last successful set since the last reset
C20_DatabasePath ==
    dbpath # None =>
        /\ \A i \in 1..Len(dbpath.calls) :
              LET c == dbpath.calls[i]
              IN  /\ c.op = "set" =>
                        IF dbpath.fs[Path(c.arg.str)] = "opens"
                        THEN c.ret = Bool(TRUE) /\ c.after = Path(c.arg.str)
                        ELSE c.ret = Bool(FALSE) /\ c.after = c.before
                  /\ c.op = "reset" => c.after = DB_PATH
                  /\ c.op = "get" => (c.ret = c.before /\ c.after = c.before)
        /\ dbpath.current_db_path = ExpectedPath(dbpath.calls)

C20_Witness ==
    /\ dbpath # None
    /\ Len(dbpath.calls) = 3
    /\ dbpath.calls[1].op = "set" /\ dbpath.calls[1].ret = Bool(TRUE)
    /\ dbpath.calls[1].arg = Str(<<".", "a.db">>)
    /\ dbpath.calls[2].op = "set" /\ dbpath.calls[2].ret = Bool(FALSE)
    /\ dbpath.fs[Path(dbpath.calls[2].arg.str)] = "unopenable"
    /\ dbpath.calls[3].op = "get" /\ dbpath.calls[3].ret = Path(<<"a.db">>)


\* a letter, a digit or an underscore
IsWordChar(c) ==
    \/ \E i \in 1..26 : c = LowerLetters[i] \/ c = UpperLetters[i]
    \/ c \in {"_", "0", "1", "2", "3", "4", "5", "6", "7", "8", "9"}

\* kw occurs in t with no word character directly before or after it
WholeWordIn(kw, t) ==
    \E i \in 0..(Len(t) - Len(kw)) :
        /\ \A j \in 1..Len(kw) : t[i + j] = kw[j]
        /\ i > 0 => ~IsWordChar(t[i])
        /\ i + Len(kw) < Len(t) => ~IsWordChar(t[i + Len(kw) + 1])

\* C21: a query beginning with SELECT is rejected only when a denylisted
\* keyword occurs in it as a complete word
C21_WholeWordDenylist ==
    (g_ret = Bool(FALSE) /\ StartsWith(Upper(Strip(g_sql.str)), kwSELECT)) =>
        \E kw \in dangerous_keywords : WholeWordIn(kw, Upper(Strip(g_sql.str)))


\* r, trimmed, is one fenced block: it opens with a fence marker, closes
\* with one, and has none in between
IsOneFencedBlock(r) ==
    LET t == Strip(r)
    IN  /\ Len(t) >= 6
        /\ StartsWith(t, fence)
        /\ SubSeq(t, Len(t) - 2, Len(t)) = fence
        /\ ~Contains(SubSeq(t, 4, Len(t) - 3), fence)

\* C22: the query reduced from a reply that is one fenced block, tagged or
\* not, contains no fence marker
C22_FencesRemoved ==
    (clean # None /\ clean.ret # None /\ IsOneFencedBlock(clean.arg.str)) =>
        ~Contains(clean.ret.str, fence)


\* the place of a logged call in the order of the stages
StageOf(e) ==
    IF e.op = "set_schema" THEN 1
    ELSE IF e.op = "call_llm" THEN (IF "val" \in DOMAIN e THEN 4 ELSE 2)
    ELSE IF e.op = "run_query" THEN 3
    ELSE IF e.op = "summary" THEN 5
    ELSE 6

\* C23: within one request the calls are made in stage order, each at most
\* once: the SQL agent calls the model exactly once when there is a schema
\* and never without one, and the interpreter and the chart stage run only
\* after the query was executed successfully
C23_StagesInOrder ==
    /\ \A i, j \in 1..Len(log) : i < j => StageOf(log[i]) < StageOf(log[j])
    /\ pc \notin {"idle", "generate"} =>
          (Truthy(schema) <=> \E i \in 1..Len(log) : StageOf(log[i]) = 2)
    /\ Called("run_query") => \E i \in 1..Len(log) : StageOf(log[i]) = 2
    /\ (Called("summary") \/ SummaryLLMCalls # {} \/ Called("visualize")) =>
          Logged("run_query", "ok")
    /\ Called("visualize") => Called("summary")
    /\ pc = "done" =>
          (Logged("run_query", "ok") => Called("visualize"))

C23_Witness ==
    /\ pc = "done"
    /\ Len(log) = 6
    /\ \A i \in 1..6 : StageOf(log[i]) = i


\* C24: every query the SQL agent hands to run_query is one for which
\* run_query fetches rows or raises; it never commits
C24_NoCommitBranch ==
    /\ ~committed
    /\ executed # None => StartsWith(Lower(Strip(executed.str)), kwselect)
    /\ (Logged("run_query", "ok") /\ rows # None /\ pc # "generate") =>
          \E rs \in ResultSets : rows = List(rs.rows) /\ columns = List(rs.columns)

C24_Witness ==
    /\ Logged("run_query", "ok")
    /\ executed # None
    /\ StartsWith(executed.str, kwSELECT)
    /\ Truthy(rows)
    /\ ~committed


\* the lines of kind k of a formatted text, in order
LinesOf(text, k) == SelectSeq(text, LAMBDA l : l.line = k)

\* C25: for n rows the text has min(n, 20) row lines, numbered from 1 and
\* in result order, reports the total n, and ends with the trailer for
\* n - 20 more rows exactly when n > 20
C25_FormatCap ==
    (formatted # None /\ formatted.ret # None) =>
        LET text == formatted.ret.list
            n == Len(formatted.rows)
            rowLines == LinesOf(text, "Row")
            more == LinesOf(text, "more rows")
        IN  /\ Len(rowLines) = (IF n < 20 THEN n ELSE 20)
            /\ \A j \in 1..Len(rowLines) :
                  /\ rowLines[j].i = j
                  /\ rowLines[j].dict[formatted.columns[Len(formatted.columns)]]
                        = formatted.rows[j][Len(formatted.columns)]
            /\ LinesOf(text, "Total rows") = <<[line |-> "Total rows", n |-> n]>>
            /\ IF n > 20
               THEN more = <<[line |-> "more rows", n |-> n - 20]>>
                    /\ text[Len(text)] = more[1]
               ELSE more = <<>>

C25_Witness ==
    /\ formatted # None
    /\ formatted.ret # None
    /\ Len(formatted.rows) = 22
    /\ Len(LinesOf(formatted.ret.list, "Row")) = 20
    /\ LinesOf(formatted.ret.list, "more rows") = <<[line |-> "more rows", n |-> 2]>>


\* the chart type detected for the arguments of the call
VizDetected == detect_chart_type(Len(viz.rows.list), viz.kinds, viz.sql_query)

VizReturned == viz # None /\ viz.ret # [pending |-> TRUE]

\* C26: process returns nothing for zero rows and the table descriptor when
\* no chart is detected; a failure while the detected chart is built is
\* returned as an error descriptor without figure, naming the cause, and
\* does not escape
C26_ConstructionFailureCaught ==
    VizReturned =>
        IF Len(viz.rows.list) = 0 THEN viz.ret = None
        ELSE /\ viz.ret # None
             /\ "raised" \notin DOMAIN viz.ret
             /\ VizDetected = "none" =>
                   (viz.ret.chart_type = "none" /\ viz.ret.figure = None)
             /\ (VizDetected # "none" /\ viz.gen # "ok") =>
                   /\ viz.ret.chart_type = "error"
                   /\ viz.ret.figure = None
                   /\ "cause" \in DOMAIN viz.ret.recommendation
                   /\ viz.ret.recommendation.cause = viz.gen
             /\ (VizDetected # "none" /\ viz.gen = "ok") =>
                   (viz.ret.chart_type = VizDetected /\ viz.ret.figure # None)

C26_Witness ==
    /\ VizReturned
    /\ viz.gen = "TypeError"
    /\ VizDetected = "pie"
    /\ viz.ret.chart_type = "error"

\* the first column of kind k, 0 if there is none
FirstOfKind(ks, k) ==
    IF \E i \in 1..Len(ks) : ks[i] = k
    THEN CHOOSE i \in 1..Len(ks) : ks[i] = k /\ \A j \in 1..(i - 1) : ks[j] # k
    ELSE 0

\* C27: a chart's x is the first categorical column, or the first column
\* when there is none, and its y the first numeric column, or the last
\* column when there is none; a scatter chart over two or more numeric
\* columns has the first two of them as x and y and a trend line exactly
\* when there are more than 3 rows
C27_AxesPositional ==
    (VizReturned /\ viz.ret # None /\ viz.ret.figure # None) =>
        LET cols == viz.columns.list
            ks == viz.kinds
            fig == viz.ret.figure
            numIdx == { i \in 1..Len(ks) : ks[i] = "num" }
        IN  IF viz.ret.chart_type = "scatter" /\ Cardinality(numIdx) >= 2
            THEN LET i1 == FirstOfKind(ks, "num")
                     i2 == CHOOSE i \in numIdx : i > i1 /\
                              \A j \in numIdx : j > i1 => j >= i
                 IN  /\ fig.x = cols[i1]
                     /\ fig.y = cols[i2]
                     /\ fig.trendline <=> Len(viz.rows.list) > 3
            ELSE /\ fig.x = cols[IF FirstOfKind(ks, "cat") = 0 THEN 1
                                 ELSE FirstOfKind(ks, "cat")]
                 /\ fig.y = cols[IF FirstOfKind(ks, "num") = 0 THEN Len(cols)
                                 ELSE FirstOfKind(ks, "num")]
                 /\ ~fig.trendline

C27_Witness ==
    /\ VizReturned
    /\ viz.ret # None
    /\ viz.ret.chart_type = "bar"
    /\ viz.kinds = <<"num", "cat", "cat">>
    /\ viz.ret.figure.x = <<"c", 2>>
    /\ viz.ret.figure.y = <<"c", 1>>


\* C28: the visualization of a response is absent or a descriptor with a
\* figure and one of the four chart types; it is absent when the request
\* failed and when the result has no rows
C28_VisualizationHasFigure ==
    /\ result.visualization # None =>
          /\ result.visualization.figure # None
          /\ result.visualization.chart_type \in {"bar", "pie", "line", "scatter"}
          /\ result.success
          /\ Truthy(rows)
    /\ (pc = "done" /\ Logged("visualize", "ok") /\ Truthy(rows)
          /\ detect_chart_type(Len(rows.list), kinds, sql_query) = "none") =>
             (result.success /\ result.visualization = None)

C28_Witness ==
    /\ pc = "done"
    /\ result.success
    /\ result.visualization # None
    /\ result.visualization.chart_type = "pie"
    /\ result.visualization.figure # None


\* a history of whole exchanges: user message, assistant reply, and so on
Alternates(h) ==
    /\ Len(h) % 2 = 0
    /\ \A i \in 1..Len(h) :
          h[i].role = IF i % 2 = 1 THEN "user" ELSE "assistant"

\* C29: call_llm leaves the history alone without use_history and when the
\* call gives no reply, and with use_history appends the user message and
\* then the reply; every history is a sequence of whole exchanges, and
\* requests through the pipeline leave every history empty
C29_HistoryFrame ==
    llm_call # None =>
        /\ (llm_call.last # None /\ llm_call.last.op = "call_llm") =>
              LET c == llm_call.last
                  replied == /\ "str" \in DOMAIN c.response
                             /\ Len(c.response.str) > 0
              IN  conversation_history.sql =
                    IF c.use_history /\ replied
                    THEN c.before \o
                           <<[role |-> "user", content |-> c.user_message],
                             [role |-> "assistant", content |-> c.response]>>
                    ELSE c.before
        /\ (llm_call.last # None /\ llm_call.last.op = "reset_history") =>
              conversation_history.sql = <<>>
        /\ \A a \in DOMAIN conversation_history :
              Alternates(conversation_history[a])
        /\ pc # "idle" => conversation_history = NoHistory

C29_Witness ==
    /\ llm_call # None
    /\ llm_call.n = 3
    /\ llm_call.last.op = "call_llm"
    /\ llm_call.last.use_history
    /\ llm_call.last.response = Str(<<"r">>)
    /\ Len(conversation_history.sql) = 4


\* C30: every query runs on the file that is the current database path
C30_QueriesCurrentDatabase ==
    dbpath # None =>
        \A i \in 1..Len(dbpath.calls) :
            dbpath.calls[i].op = "run_query" =>
                dbpath.calls[i].ret = dbpath.calls[i].before

====
